---- MODULE Spec2Model ----
(***************************************************************************)
(* Model of the query orchestration of the XANA backend:                   *)
(* QueryService.handleQuery and the methods it awaits (query.service.ts),  *)
(* with the provider services it calls.  One behaviour is one request.     *)
(* Every await of an external call is a step boundary: an action issues    *)
(* the call, the next action receives its result (drawn from a bounded     *)
(* set) and runs the handler up to the next await or to its return.        *)
(***************************************************************************)
EXTENDS Integers, Sequences, FiniteSets, TLC

VARIABLES
    pc,               \* position of handleQuery: the await it is suspended on
    messages,         \* request field messages (a JavaScript value)
    vectorStoreIds,   \* request field vectorStoreIds
    hostProvider,     \* request field hostProvider
    pgPool,           \* QueryService.pgPool is set (PGHOST configured)
    enhancedMessages, \* local of handleQuery
    chartNlu,         \* local nlu of maybeGetChartData while it is live
    alertNlu,         \* local nlu of maybeGetAlertData while it is live
    topK,             \* local of milvusSearch
    useReranker,      \* local of milvusSearch
    rawResults,       \* records returned by the vector search, normalised
    searchResults,    \* local of milvusSearch (reranked or original)
    fullHistory,      \* local of handleQuery: the messages of the main completion
    calls,            \* external calls issued so far, in order
    obs,              \* what the request's log lines have recorded
    outcome,          \* what handleQuery returned or threw
    gateway,          \* one call of a provider service: its params and result
    index,            \* the embedding configuration and the vectors handed to
                      \* the vector index
    retrieval,        \* milvusSearch called twice on one conversation: its
                      \* settings, the external responses and what it returned
    embedLog          \* the global logged-dimension flags of the process and
                      \* the concurrent createEmbeddings calls of OpeaService

vars == <<pc, messages, vectorStoreIds, hostProvider, pgPool, enhancedMessages,
          chartNlu, alertNlu, topK, useReranker, rawResults, searchResults,
          fullHistory, calls, obs, outcome, gateway, index, retrieval,
          embedLog>>

-----------------------------------------------------------------------------
(* Bounds *)

MaxMsgs == 1
MaxPoints == 2
MaxAlerts == 2
MaxHits == 4
MaxTopK == 2

-----------------------------------------------------------------------------
(* JavaScript values, as far as the code inspects them *)

Undefined == [tag |-> "undefined", val |-> ""]
Null == [tag |-> "null", val |-> ""]
Str(s) == [tag |-> "string", val |-> s]
Num(n) == [tag |-> "number", val |-> n]
Bool(b) == [tag |-> "boolean", val |-> IF b THEN "true" ELSE "false"]
Obj(o) == [tag |-> "object", val |-> o]

\* JavaScript truthiness: !!x
Truthy(x) ==
    CASE x.tag = "undefined" -> FALSE
      [] x.tag = "null" -> FALSE
      [] x.tag = "string" -> x.val # ""
      [] x.tag = "number" -> x.val # "0"
      [] x.tag = "boolean" -> x.val = "true"
      [] OTHER -> TRUE

Min(a, b) == IF a < b THEN a ELSE b

Roles == {"user", "assistant"}
Contents == <<"q1", "q2", "q3">>
Providers == {"ionos", "ollama", "opea"}

\* conversations: the i-th message has the i-th content
MsgArrays ==
    UNION {{[i \in 1..n |-> [role |-> r[i], content |-> Contents[i]]] :
              r \in [1..n -> Roles]} : n \in 0..MaxMsgs}

\* the messages field: absent, a non-array value, or an array
MessagesValues ==
    {[tag |-> "undefined", arr |-> <<>>], [tag |-> "string", arr |-> <<>>]}
        \cup {[tag |-> "array", arr |-> a] : a \in MsgArrays}

VectorStoreIdsValues == {<<>>, <<"vs1">>}

AssetUrn == "urn:iff:asset:7"

\* what JSON.parse(cleaned) gives for a classifier completion
ChartObjects ==
    [kind : {"object"},
     wants_chart : {Bool(TRUE), Bool(FALSE)},
     asset_urn : {Null, Str(AssetUrn), Num("7")},
     metric : {Null, Str("pressure")},
     last : {Null, Obj("3d")},
     from : {Null, Str("2025-09-01T00:00:00.000")},
     to : {Null, Str("2025-09-02T00:00:00.000")}]

ChartNonObject(k) ==
    [kind |-> k, wants_chart |-> Undefined, asset_urn |-> Undefined,
     metric |-> Undefined, last |-> Undefined, from |-> Undefined,
     to |-> Undefined]

NoChartNlu == ChartNonObject("none")

ChartParses ==
    ChartObjects
        \cup {ChartNonObject(k) : k \in {"syntaxerror", "null", "primitive", "array"}}

AlertObjects ==
    [kind : {"object"},
     wants_alert : {Bool(TRUE), Bool(FALSE)},
     asset_urn : {Null, Str(AssetUrn), Num("7")}]

AlertNonObject(k) ==
    [kind |-> k, wants_alert |-> Undefined, asset_urn |-> Undefined]

NoAlertNlu == AlertNonObject("none")

AlertParses ==
    AlertObjects
        \cup {AlertNonObject(k) : k \in {"syntaxerror", "null", "primitive", "array"}}

\* a string, as far as the classifiers look at it: whether it is wrapped in
\* a code fence, and what JSON.parse makes of the text inside (empty for the
\* empty string, syntaxerror for other text that is not JSON)
Text(json, fenced) == [json |-> json, fenced |-> fenced]

ChartTexts ==
    {Text(j, f) : j \in ChartParses, f \in BOOLEAN}
        \cup {Text(ChartNonObject("empty"), FALSE)}

AlertTexts ==
    {Text(j, f) : j \in AlertParses, f \in BOOLEAN}
        \cup {Text(AlertNonObject("empty"), FALSE)}

\* choices[0].message.content of a classifier completion: absent, a
\* number, a string (any text), an array of one part (with a text field or
\* without), or an object (with a string under content, text or message, or
\* the JSON value itself); inside = the texts and the object that the parts
\* and objects are drawn with
ContentsOf(texts, inside, object) ==
    {[shape |-> sh, field |-> "none", text |-> Text(object, FALSE)] :
        sh \in {"absent", "number"}}
    \cup {[shape |-> "string", field |-> "none", text |-> t] : t \in texts}
    \cup {[shape |-> "array", field |-> fd, text |-> t] :
            fd \in {"text", "none"}, t \in inside}
    \cup {[shape |-> "object", field |-> fd, text |-> t] :
            fd \in {"content", "text", "message"}, t \in inside}
    \cup {[shape |-> "object", field |-> "none", text |-> Text(object, FALSE)]}

\* a complete chart intent, a complete alert intent
FullChartIntent ==
    [kind |-> "object", wants_chart |-> Bool(TRUE), asset_urn |-> Str(AssetUrn),
     metric |-> Str("pressure"), last |-> Null,
     from |-> Str("2025-09-01T00:00:00.000"), to |-> Str("2025-09-02T00:00:00.000")]

FullAlertIntent ==
    [kind |-> "object", wants_alert |-> Bool(TRUE), asset_urn |-> Str(AssetUrn)]

ChartContents ==
    ContentsOf(ChartTexts,
               {t \in ChartTexts : t.json.kind # "object" \/ t.json = FullChartIntent},
               FullChartIntent)

AlertContents ==
    ContentsOf(AlertTexts,
               {t \in AlertTexts : t.json.kind # "object" \/ t.json = FullAlertIntent},
               FullAlertIntent)

\* out.replace(/^```(?:json)?\s*|\s*```$/g, '').trim()
Clean(text) == [text EXCEPT !.fenced = FALSE]

\* JSON.parse(cleaned): a fence left in the text is a syntax error
JsonParse(text, syntaxerror) ==
    IF text.fenced \/ text.json.kind = "empty" THEN syntaxerror ELSE text.json

-----------------------------------------------------------------------------
(* Results of handleQuery *)

NoOutcome ==
    [kind |-> "none", reply |-> Undefined, text |-> "", alerts |-> <<>>,
     series |-> <<>>, sources |-> <<>>]

Thrown(k, msg) == [NoOutcome EXCEPT !.kind = k, !.text = msg]

ChartReply(series, summary) ==
    [NoOutcome EXCEPT !.kind = "chart", !.series = series, !.text = summary]

MessageReply(msg) == [NoOutcome EXCEPT !.kind = "message", !.text = msg]

AlertReply(reply, alerts) ==
    [NoOutcome EXCEPT !.kind = "alert", !.reply = Str(reply), !.alerts = alerts]

ChatReply(reply, sources) ==
    [NoOutcome EXCEPT !.kind = "reply", !.reply = reply, !.sources = sources]

NoObs ==
    [chart |-> "unchecked", relative |-> FALSE, alert |-> "unchecked",
     failed |-> {}, chat |-> "none"]

-----------------------------------------------------------------------------
(* handleQuery: Validate and Enhance *)

\* variant: the length test is missing
InvalidMessagesNoLength(m) == m.tag # "array"

\* !messages || !Array.isArray(messages) || messages.length === 0
InvalidMessages(m) == m.tag # "array" \/ Len(m.arr) = 0

\* vectorStoreIds.join(', ')
RECURSIVE Join(_)
Join(ids) ==
    IF Len(ids) = 0 THEN ""
    ELSE IF Len(ids) = 1 THEN ids[1]
    ELSE ids[1] \o ", " \o Join(Tail(ids))

AssetInfo(ids) ==
    [role |-> "user", content |-> "Find Information for product " \o Join(ids) \o "."]

Enhance(msgs, ids) ==
    IF Len(ids) > 0 THEN <<AssetInfo(ids)>> \o msgs ELSE msgs

\* [...messages].reverse().find(m => m.role === 'user') is defined
HasUser(msgs) == \E i \in 1..Len(msgs) : msgs[i].role = "user"

\* variant: the first user message is taken
FirstUserIdx(msgs) ==
    CHOOSE i \in 1..Len(msgs) :
        /\ msgs[i].role = "user"
        /\ \A j \in 1..(i - 1) : msgs[j].role # "user"

\* fullHistory.map((m, i) => ({...m, idx: i})).reverse()
\*     .find(m => m.role === 'user')?.idx, positions from 1
LastUserIdx(msgs) ==
    CHOOSE i \in 1..Len(msgs) :
        /\ msgs[i].role = "user"
        /\ \A j \in (i + 1)..Len(msgs) : msgs[j].role # "user"

\* variant: the content of the last message, whoever wrote it
LastContent(msgs) == msgs[Len(msgs)].content

\* lastUser.content, lastUser = [...messages].reverse().find(m => m.role === 'user')
LastUserContent(msgs) == msgs[LastUserIdx(msgs)].content

Call(op, provider) == [op |-> op, provider |-> provider]

\* a classifier call with the text it is given to classify
ClassifierCall(op, provider, input) ==
    [op |-> op, provider |-> provider, input |-> input]

\* variant: a call is issued a second time
IssueTwice(cs, call) == Append(Append(cs, call), call)

\* an external call is awaited where it is made: issued once
Issue(cs, call) == Append(cs, call)

Issued(op) == \E i \in 1..Len(calls) : calls[i].op = op

\* x || y || z on provider names ("" is unset)
OrElse(x, y) == IF x # "" THEN x ELSE y

\* the values of a provider setting that x || process.env.SETTING || ...
\* can read: the setting is evaluated only when x is unset
SettingAfter(x) == IF x # "" THEN {""} ELSE {""} \cup Providers

Validate ==
    /\ pc = "start"
    /\ IF InvalidMessages(messages)
       THEN /\ outcome' = Thrown("BadRequestException",
                                 "Messages array is required and cannot be empty")
            /\ pc' = "done"
            /\ UNCHANGED enhancedMessages
       ELSE /\ enhancedMessages' = Enhance(messages.arr, vectorStoreIds)
            /\ pc' = "chartCheck"
            /\ UNCHANGED outcome
    /\ UNCHANGED <<gateway, index, retrieval, embedLog, fullHistory, messages, vectorStoreIds,
                   hostProvider, pgPool, chartNlu,
                   alertNlu, topK, useReranker, rawResults, searchResults,
                   calls, obs>>

-----------------------------------------------------------------------------
(* Chart check: getChartSummaryIfAny, maybeGetChartData,                   *)
(* detectChartIntentWithLLM, fetchSeriesFromPostgres, formatChartSummary   *)

\* asString of detectChartIntentWithLLM: a string as it is, null or
\* undefined as '', an object (an array too) as its string content, text or
\* message or else as JSON.stringify of it, anything else as String(x)
AsStringChart(content) ==
    CASE content.shape = "string" -> content.text
      [] content.shape = "absent" -> Text(ChartNonObject("empty"), FALSE)
      [] content.shape = "array" -> Text(ChartNonObject("array"), FALSE)
      [] content.shape = "object" ->
            IF content.field = "none"
            THEN content.text
            ELSE IF content.text.json.kind # "empty"
            THEN content.text
            ELSE Text(ChartNonObject("object"), FALSE)
      [] OTHER -> Text(ChartNonObject("primitive"), FALSE)

\* detectChartIntentWithLLM after the completion: asString, the fence
\* strip, JSON.parse and its catch
DetectChartIntent(content) ==
    LET parsed == JsonParse(Clean(AsStringChart(content)),
                            ChartNonObject("syntaxerror"))
    IN IF parsed.kind = "syntaxerror"
       THEN [ChartNonObject("default") EXCEPT !.wants_chart = Bool(FALSE)]
       ELSE parsed

\* nlu.wants_chart / nlu.wants_alert on a null nlu is a TypeError
NluThrows(nlu) == nlu.kind = "null"

\* variant: the error leaves the check
CheckRethrows(err) == err

\* the try / catch of getChartSummaryIfAny and of getAlertsDataIfAny: the
\* error is logged or ignored, none leaves the check
CheckCatch(err) == "none"

\* variant: the fetcher has no catch
FetchFailureUncaught(failed) == failed

\* the try / catch of fetchSeriesFromPostgres and of fetchAlertData: a
\* failure of the query or of the request does not leave the fetcher
FetchFailureEscapes(failed) == FALSE

\* variant: the wants_chart flag is not tested
ChartWantedAnyFlag(nlu) == Truthy(nlu.asset_urn)

\* !(!nlu.wants_chart || !nlu.asset_urn)
ChartWanted(nlu) == Truthy(nlu.wants_chart) /\ Truthy(nlu.asset_urn)

ChartFrom(nlu) == IF Truthy(nlu.from) THEN nlu.from.val ELSE ""

ChartTo(nlu) == IF Truthy(nlu.to) THEN nlu.to.val ELSE ""

\* variant: the window is not tested
ChartFetchableAnyWindow(nlu, pool) == pool /\ nlu.asset_urn.tag = "string"

\* this.pgPool && typeof nlu.asset_urn === 'string' && from && to
ChartFetchable(nlu, pool) ==
    /\ pool
    /\ nlu.asset_urn.tag = "string"
    /\ ChartFrom(nlu) # ""
    /\ ChartTo(nlu) # ""

\* what the classifier result amounts to, as the debug log shows it
ChartMatch(nlu) ==
    IF nlu.kind # "object" THEN "unusable"
    ELSE IF ~Truthy(nlu.wants_chart) THEN "none"
    ELSE IF Truthy(nlu.asset_urn) /\ Truthy(nlu.from) /\ Truthy(nlu.to) THEN "full"
    ELSE "partial"

RelativeWindowOnly(nlu) ==
    /\ Truthy(nlu.wants_chart)
    /\ nlu.asset_urn.tag = "string" /\ Truthy(nlu.asset_urn)
    /\ Truthy(nlu.metric)
    /\ Truthy(nlu.last)
    /\ ~Truthy(nlu.from)
    /\ ~Truthy(nlu.to)

\* rows of the time-series query, newest first
Series(n) == [i \in 1..n |-> [t |-> n - i + 1, v |-> i]]

RECURSIVE MinV(_)
MinV(s) ==
    IF Len(s) = 1 THEN s[1].v
    ELSE LET m == MinV(Tail(s)) IN IF s[1].v < m THEN s[1].v ELSE m

RECURSIVE MaxV(_)
MaxV(s) ==
    IF Len(s) = 1 THEN s[1].v
    ELSE LET m == MaxV(Tail(s)) IN IF s[1].v > m THEN s[1].v ELSE m

FormatChartSummary(series, nlu) ==
    "Live data (" \o (IF nlu.metric.tag = "string" THEN nlu.metric.val ELSE "metric")
        \o ") for " \o nlu.asset_urn.val \o "\nPoints: " \o ToString(Len(series))
        \o (IF Len(series) > 0
            THEN ", Min: " \o ToString(MinV(series)) \o ", Max: " \o ToString(MaxV(series))
            ELSE "")

\* the tail of getChartSummaryIfAny once chart is a ChartResult
ChartSummary(series, nlu) ==
    IF Len(series) > 0
    THEN ChartReply(series, FormatChartSummary(series, nlu))
    ELSE MessageReply("Make sure you have mentioned asset ID, metric, from and to dates.")

\* variant: the reply of a check is not returned
ReturnsNothing(summary) == FALSE

\* if (chartSummary) return chartSummary / if (b !== null) return b
ReturnsIt(summary) == summary.kind # "none"

\* process.env.CHART_INTENT || 'true'; the check runs unless it is 'false'
ChartCheck ==
    /\ pc = "chartCheck"
    /\ \E chartIntentEnv \in {"", "false"} :
         IF OrElse(chartIntentEnv, "true") # "false" /\ HasUser(enhancedMessages)
         THEN \E llmProviderEnv \in {""} \cup Providers :
                /\ calls' = Issue(calls,
                       ClassifierCall("chartClassifier",
                                      OrElse(llmProviderEnv, "ionos"),
                                      LastUserContent(enhancedMessages)))
                /\ pc' = "chartClassify"
         ELSE /\ pc' = "alertCheck"
              /\ UNCHANGED calls
    /\ UNCHANGED <<gateway, index, retrieval, embedLog, fullHistory, messages, vectorStoreIds,
                   hostProvider, pgPool,
                   enhancedMessages, chartNlu, alertNlu, topK, useReranker,
                   rawResults, searchResults, obs, outcome>>

\* the chat completion of the chart classifier rejects: caught in
\* getChartSummaryIfAny, chart stays null
ChartClassifierFails ==
    /\ pc = "chartClassify"
    /\ obs' = [obs EXCEPT !.chart = "none"]
    /\ IF CheckCatch("Error") = "none"
       THEN /\ pc' = "alertCheck"
            /\ UNCHANGED outcome
       ELSE /\ outcome' = Thrown(CheckCatch("Error"), "chart classifier failed")
            /\ pc' = "done"
    /\ UNCHANGED <<gateway, index, retrieval, embedLog, fullHistory, messages, vectorStoreIds,
                   hostProvider, pgPool,
                   enhancedMessages, chartNlu, alertNlu, topK, useReranker,
                   rawResults, searchResults, calls>>

ChartClassifierReturns ==
    /\ pc = "chartClassify"
    /\ \E content \in ChartContents :
         LET nlu == DetectChartIntent(content) IN
         /\ obs' = [obs EXCEPT !.chart = ChartMatch(nlu),
                               !.relative = RelativeWindowOnly(nlu)]
         /\ IF NluThrows(nlu)
            THEN IF CheckCatch("TypeError") = "none"
                 THEN /\ pc' = "alertCheck"
                      /\ UNCHANGED <<chartNlu, calls, outcome>>
                 ELSE /\ outcome' = Thrown(CheckCatch("TypeError"),
                                           "Cannot read properties of null")
                      /\ pc' = "done"
                      /\ UNCHANGED <<chartNlu, calls>>
            ELSE IF ChartWanted(nlu) /\ ChartFetchable(nlu, pgPool)
            THEN /\ chartNlu' = nlu
                 /\ calls' = Issue(calls, Call("timeSeries", "postgres"))
                 /\ pc' = "chartFetch"
                 /\ UNCHANGED outcome
            ELSE /\ pc' = "alertCheck"
                 /\ UNCHANGED <<chartNlu, calls, outcome>>
    /\ UNCHANGED <<gateway, index, retrieval, embedLog, fullHistory, messages, vectorStoreIds,
                   hostProvider, pgPool,
                   enhancedMessages, alertNlu, topK, useReranker, rawResults,
                   searchResults>>

\* the query rejects (caught, series stays []) or returns up to 100 rows
ChartFetchReturns ==
    /\ pc = "chartFetch"
    /\ \E failed \in BOOLEAN, n \in 0..MaxPoints :
         LET series == IF failed THEN <<>> ELSE Series(n)
             escaped == IF FetchFailureEscapes(failed)
                        THEN CheckCatch("Error") ELSE "none"
             summary == IF FetchFailureEscapes(failed)
                        THEN NoOutcome ELSE ChartSummary(series, chartNlu)
         IN /\ obs' = [obs EXCEPT !.failed =
                          IF failed THEN @ \cup {"timeSeries"} ELSE @]
            /\ IF escaped # "none"
               THEN /\ outcome' = Thrown(escaped, "time-series query failed")
                    /\ pc' = "done"
               ELSE IF ReturnsIt(summary)
               THEN /\ outcome' = summary
                    /\ pc' = "done"
               ELSE /\ pc' = "alertCheck"
                    /\ UNCHANGED outcome
    /\ UNCHANGED <<gateway, index, retrieval, embedLog, fullHistory, messages, vectorStoreIds,
                   hostProvider, pgPool,
                   enhancedMessages, chartNlu, alertNlu, topK, useReranker,
                   rawResults, searchResults, calls>>

-----------------------------------------------------------------------------
(* Alert check: getAlertsDataIfAny, maybeGetAlertData,                     *)
(* detectAlertIntentWithLLM, fetchAlertData                                *)

\* asString of detectAlertIntentWithLLM: a string as it is, an array as
\* the texts of its parts joined, another object as JSON.stringify of it,
\* anything else as ''
AsStringAlert(content) ==
    CASE content.shape = "string" -> content.text
      [] content.shape = "array" ->
            IF content.field = "text" THEN content.text
            ELSE Text(AlertNonObject("empty"), FALSE)
      [] content.shape = "object" ->
            IF content.field = "none" THEN content.text
            ELSE Text(AlertNonObject("object"), FALSE)
      [] OTHER -> Text(AlertNonObject("empty"), FALSE)

\* detectAlertIntentWithLLM after the completion
DetectAlertIntent(content) ==
    LET parsed == JsonParse(Clean(AsStringAlert(content)),
                            AlertNonObject("syntaxerror"))
    IN IF parsed.kind = "syntaxerror"
       THEN [AlertNonObject("default") EXCEPT !.wants_alert = Bool(FALSE)]
       ELSE parsed

\* !(!nlu.wants_alert || !nlu.asset_urn)
AlertWanted(nlu) == Truthy(nlu.wants_alert) /\ Truthy(nlu.asset_urn)

\* typeof nlu.asset_urn === 'string'
AlertFetchable(nlu) == nlu.asset_urn.tag = "string"

AlertMatch(nlu) ==
    IF nlu.kind # "object" THEN "unusable"
    ELSE IF ~Truthy(nlu.wants_alert) THEN "none"
    ELSE IF Truthy(nlu.asset_urn) THEN "full"
    ELSE "partial"

Alerts(n) == [i \in 1..n |-> [t |-> i, v |-> i]]

\* the test  alert?.alerts  on an array: every array is truthy, the empty
\* one too
AlertsTruthy(alerts) == Truthy(Obj("array"))

\* the if / else if / else of getAlertsDataIfAny once alert is an AlertResult
AlertsReply(alerts, assetUrn) ==
    IF AlertsTruthy(alerts)
    THEN AlertReply("Here's the live alerts:\n\n", alerts)
    ELSE IF Len(alerts) = 0
    THEN AlertReply("No live data available for " \o assetUrn \o ".", alerts)
    ELSE NoOutcome

AlertCheck ==
    /\ pc = "alertCheck"
    /\ IF HasUser(enhancedMessages)
       THEN /\ calls' = Issue(calls,
                   ClassifierCall("alertClassifier", "ionos",
                                  LastUserContent(enhancedMessages)))
            /\ pc' = "alertClassify"
       ELSE /\ pc' = "retrieve"
            /\ UNCHANGED calls
    /\ chartNlu' = NoChartNlu
    /\ UNCHANGED <<gateway, index, retrieval, embedLog, fullHistory, messages, vectorStoreIds,
                   hostProvider, pgPool,
                   enhancedMessages, alertNlu, topK, useReranker, rawResults,
                   searchResults, obs, outcome>>

\* the chat completion of the alert classifier rejects: caught in
\* getAlertsDataIfAny, alert stays null
AlertClassifierFails ==
    /\ pc = "alertClassify"
    /\ obs' = [obs EXCEPT !.alert = "none"]
    /\ IF CheckCatch("Error") = "none"
       THEN /\ pc' = "retrieve"
            /\ UNCHANGED outcome
       ELSE /\ outcome' = Thrown(CheckCatch("Error"), "alert classifier failed")
            /\ pc' = "done"
    /\ UNCHANGED <<gateway, index, retrieval, embedLog, fullHistory, messages, vectorStoreIds,
                   hostProvider, pgPool,
                   enhancedMessages, chartNlu, alertNlu, topK, useReranker,
                   rawResults, searchResults, calls>>

AlertClassifierReturns ==
    /\ pc = "alertClassify"
    /\ \E content \in AlertContents :
         LET nlu == DetectAlertIntent(content) IN
         /\ obs' = [obs EXCEPT !.alert = AlertMatch(nlu)]
         /\ IF NluThrows(nlu)
            THEN IF CheckCatch("TypeError") = "none"
                 THEN /\ pc' = "retrieve"
                      /\ UNCHANGED <<alertNlu, calls, outcome>>
                 ELSE /\ outcome' = Thrown(CheckCatch("TypeError"),
                                           "Cannot read properties of null")
                      /\ pc' = "done"
                      /\ UNCHANGED <<alertNlu, calls>>
            ELSE IF AlertWanted(nlu) /\ AlertFetchable(nlu)
            THEN /\ alertNlu' = nlu
                 /\ calls' = Issue(calls, Call("alertFetch", "alerta"))
                 /\ pc' = "alertFetch"
                 /\ UNCHANGED outcome
            ELSE /\ pc' = "retrieve"
                 /\ UNCHANGED <<alertNlu, calls, outcome>>
    /\ UNCHANGED <<gateway, index, retrieval, embedLog, fullHistory, messages, vectorStoreIds,
                   hostProvider, pgPool,
                   enhancedMessages, chartNlu, topK, useReranker, rawResults,
                   searchResults>>

\* axios.get rejects (caught, alerts stays []) or returns data whose alerts
\* field is an array or missing (alerts || [])
AlertFetchReturns ==
    /\ pc = "alertFetch"
    /\ \E failed \in BOOLEAN, n \in 0..MaxAlerts :
         LET alerts == IF failed THEN <<>> ELSE Alerts(n)
             escaped == IF FetchFailureEscapes(failed)
                        THEN CheckCatch("Error") ELSE "none"
             b == IF FetchFailureEscapes(failed)
                  THEN NoOutcome ELSE AlertsReply(alerts, alertNlu.asset_urn.val)
         IN /\ obs' = [obs EXCEPT !.failed =
                          IF failed THEN @ \cup {"alertFetch"} ELSE @]
            /\ IF escaped # "none"
               THEN /\ outcome' = Thrown(escaped, "alert request failed")
                    /\ pc' = "done"
               ELSE IF ReturnsIt(b)
               THEN /\ outcome' = b
                    /\ pc' = "done"
               ELSE /\ pc' = "retrieve"
                    /\ UNCHANGED outcome
    /\ UNCHANGED <<gateway, index, retrieval, embedLog, fullHistory, messages, vectorStoreIds,
                   hostProvider, pgPool,
                   enhancedMessages, chartNlu, alertNlu, topK, useReranker,
                   rawResults, searchResults, calls>>

-----------------------------------------------------------------------------
(* Retrieve: milvusSearch, OpeaService.rerankHits                          *)

\* a record of the vector index, in rank order
Hit(i) == [id |-> i, text |-> "t" \o ToString(i), score |-> 100 - i]

Hits(n) == [i \in 1..n |-> Hit(i)]

\* variant: the over-fetch has no ceiling
RetrieveKNoCeiling(k, rerank) == IF rerank THEN k * 3 ELSE k

\* useReranker ? Math.min(topK * 3, 20) : topK
RetrieveK(k, rerank) == IF rerank THEN Min(k * 3, 20) ELSE k

\* s.toLowerCase() on the values the flag is given
ToLowerCase(s) == IF s \in {"TRUE", "True"} THEN "true" ELSE s

\* useReranker: true with opea embeddings, else
\* (process.env.USE_RERANKER || 'false').toLowerCase() === 'true'
UseReranker(embeddingProvider, useRerankerEnv) ==
    \/ embeddingProvider = "opea"
    \/ ToLowerCase(OrElse(useRerankerEnv, "false")) = "true"

\* parseInt(process.env.RETRIEVE_TOP_K || '5', 10); the setting is a number
\* or unset (0 here)
TopK(retrieveTopKEnv) == IF retrieveTopKEnv = 0 THEN 5 ELSE retrieveTopKEnv

\* the normalisation of rawResults: a top-level array, a nested first
\* element, a nested data field, or anything else
NormalizeResults(shape, hits) ==
    IF shape \in {"array", "nested", "data"} THEN hits ELSE <<>>

\* hit.f of a string property: a property the object does not have reads as
\* undefined, which || treats as it treats ''
Get(hit, f) == IF f \in DOMAIN hit THEN hit[f] ELSE ""

\* hit.f of a number property: a missing number reads as 0, which || treats
\* as it treats undefined
GetNumber(hit, f) == IF f \in DOMAIN hit THEN hit[f] ELSE 0

\* hit.score || hit.distance
HitScore(hit) ==
    IF GetNumber(hit, "score") # 0 THEN hit.score ELSE GetNumber(hit, "distance")

\* coerceLabels(hit.labels || hit.entity || hit) for hits whose labels, when
\* they have any, are an object
CoerceLabels(hit) == IF "labels" \in DOMAIN hit THEN hit.labels ELSE hit

\* labels.text || hit.text || hit.content || ''
HitText(hit) ==
    OrElse(Get(CoerceLabels(hit), "text"), OrElse(Get(hit, "text"), Get(hit, "content")))

\* what String(Math.random()) can give
Randoms == {"0.1", "0.2"}

\* the hits for which String(Math.random()) is evaluated
Unidentified(results) ==
    {i \in 1..Len(results) :
        "id" \notin DOMAIN results[i] /\ Get(results[i], "chunk_id") = ""}

\* the draws when every hit has an id: Math.random is not called
NoRandom(results) == [i \in Unidentified(results) |-> "0.1"]

\* hit.id || hit.chunk_id || String(Math.random())
HitId(hit, random) ==
    IF "id" \in DOMAIN hit THEN hit.id
    ELSE OrElse(Get(hit, "chunk_id"), random)

\* the hits handed to the reranker; random[i] is what Math.random gives
\* for the i-th hit, if it is called for it
ToRerankHits(results, random) ==
    [i \in 1..Len(results) |->
        [id |-> HitId(results[i], random[i]),
         text |-> HitText(results[i]),
         score |-> HitScore(results[i])]]

\* how a reranker may answer: results in rank order, results preferring
\* the last documents, results in ascending score
Rerankers == {"rank", "reverse", "ascending"}

\* the response of such a reranker for n documents and top_n = topN
RerankResponse(reranker, n, topN) ==
    LET m == Min(topN, n) IN
    CASE reranker = "rank" ->
            [j \in 1..m |-> [index |-> j - 1, relevance_score |-> m - j + 1]]
      [] reranker = "reverse" ->
            [j \in 1..m |-> [index |-> n - j, relevance_score |-> m - j + 1]]
      [] reranker = "ascending" ->
            [j \in 1..m |-> [index |-> j - 1, relevance_score |-> j]]

RerankResponses(n, topN) == {RerankResponse(r, n, topN) : r \in Rerankers}

RECURSIVE InsertDesc(_, _)
InsertDesc(x, sorted) ==
    IF Len(sorted) = 0 THEN <<x>>
    ELSE IF Head(sorted).rerank_score <= x.rerank_score THEN <<x>> \o sorted
    ELSE <<Head(sorted)>> \o InsertDesc(x, Tail(sorted))

\* rerankedHits.sort((a, b) => b.rerank_score - a.rerank_score), stable
RECURSIVE SortDesc(_)
SortDesc(s) ==
    IF Len(s) = 0 THEN <<>> ELSE InsertDesc(Head(s), SortDesc(Tail(s)))

\* params.hits[result.index] is undefined for some result
RerankHitsThrows(hits, response) ==
    \E j \in 1..Len(response) : response[j].index + 1 \notin 1..Len(hits)

\* variant: the hit at the position of the result is taken, not the hit
\* at result.index
RerankHitsByPosition(hits, response) ==
    SortDesc([j \in 1..Len(response) |->
                [id |-> hits[Min(j, Len(hits))].id,
                 text |-> hits[Min(j, Len(hits))].text,
                 score |-> hits[Min(j, Len(hits))].score,
                 rerank_score |-> response[j].relevance_score]])

RerankHits(hits, response) ==
    SortDesc([j \in 1..Len(response) |->
                [id |-> hits[response[j].index + 1].id,
                 text |-> hits[response[j].index + 1].text,
                 score |-> hits[response[j].index + 1].score,
                 rerank_score |-> response[j].relevance_score]])

\* variant: the catch drops the candidates
AfterRerankFailureEmpty(results) == <<>>

\* the catch around rerankHits: continue with the original searchResults
AfterRerankFailure(results) == results

LastProvider == calls[Len(calls)].provider

\* JSON.stringify(labels): a text that shows every property of the object
Stringify(labels) == ToString(labels)

\* labels.text || hit.text || hit.content || JSON.stringify(labels)
BlockText(hit) == OrElse(HitText(hit), Stringify(CoerceLabels(hit)))

\* labels.source || labels.filename || hit.filename || `doc-${i}`
BlockSource(hit, i) ==
    OrElse(Get(CoerceLabels(hit), "source"),
           OrElse(Get(CoerceLabels(hit), "filename"),
                  OrElse(Get(hit, "filename"), "doc-" \o ToString(i))))

\* hit.score || hit.distance || 'N/A'
BlockScore(hit) == IF HitScore(hit) # 0 THEN ToString(HitScore(hit)) ELSE "N/A"

\* one block of contextText for the hit at position i (from 0)
ContextBlock(hit, i) ==
    "[" \o BlockSource(hit, i) \o "] (score: " \o BlockScore(hit) \o ")\n"
        \o BlockText(hit)

\* the test of .filter(s => s && s.length > 4)
KeepBlock(s) == Len(s) > 4

\* .map((hit, i) => ...).filter(...) from position i on (from 1)
RECURSIVE BlocksFrom(_, _)
BlocksFrom(results, i) ==
    IF i > Len(results) THEN <<>>
    ELSE LET block == ContextBlock(results[i], i - 1) IN
         (IF KeepBlock(block) THEN <<block>> ELSE <<>>) \o BlocksFrom(results, i + 1)

\* the blocks that are joined
Blocks(results) == BlocksFrom(results, 1)

\* .join('\n\n-----\n\n')
RECURSIVE JoinBlocks(_)
JoinBlocks(blocks) ==
    IF Len(blocks) = 0 THEN ""
    ELSE IF Len(blocks) = 1 THEN blocks[1]
    ELSE blocks[1] \o "\n\n-----\n\n" \o JoinBlocks(Tail(blocks))

ContextText(results) == JoinBlocks(Blocks(results))

ContextHeader == "\n\n--- Context ---\n"

\* fullContext.trim() is non-empty: contextText is empty or starts with '['
NonBlank(text) == text # ""

\* fullContext = contextText; if (fullContext.trim()) fullContext = header + it
FullContext(contextText) ==
    IF NonBlank(contextText) THEN ContextHeader \o contextText ELSE contextText

SystemPrompt == [role |-> "system", content |-> "You are XANA"]

\* variant: the content is written into the object the slot holds
SpliceInPlace(obj, content) ==
    [slot |-> [obj EXCEPT !.content = content],
     held |-> [obj EXCEPT !.content = content]]

\* fullHistory[lastUserIdx] = {...fullHistory[lastUserIdx], content: ...}:
\* the slot takes a new object; the object it held, which enhancedMessages
\* and the caller's array hold too, is not written
Splice(obj, content) ==
    [slot |-> [obj EXCEPT !.content = content], held |-> obj]

\* fullHistory = [systemPrompt, ...enhancedMessages] with the context
\* spliced into the last user message
FullHistory(enhanced, contextText) ==
    LET history == <<SystemPrompt>> \o enhanced
        fullContext == FullContext(contextText)
    IN IF NonBlank(fullContext) /\ HasUser(history)
       THEN [history EXCEPT ![LastUserIdx(history)] =
                Splice(@, @.content \o ContextHeader \o fullContext).slot]
       ELSE history

\* the caller's array after the splice: [...messages] and [assetInfo,
\* ...messages] copy the array, not its objects, so the last objects of
\* fullHistory are the caller's
CallerMessages(msgs, enhanced, contextText) ==
    LET history == <<SystemPrompt>> \o enhanced
        fullContext == FullContext(contextText)
        own == Len(history) - Len(msgs)
    IN IF NonBlank(fullContext) /\ HasUser(history) /\ LastUserIdx(history) > own
       THEN [msgs EXCEPT ![LastUserIdx(history) - own] =
                Splice(@, @.content \o ContextHeader \o fullContext).held]
       ELSE msgs

\* the return of milvusSearch with these results (its locals end), up to
\* the await of the main completion
ChatCall(results) ==
    /\ topK' = 0
    /\ useReranker' = FALSE
    /\ LET contextText == ContextText(results) IN
       /\ fullHistory' = FullHistory(enhancedMessages, contextText)
       /\ messages' = [messages EXCEPT !.arr =
              CallerMessages(@, enhancedMessages, contextText)]
    /\ \E llmProviderEnv \in SettingAfter(hostProvider) :
         calls' = Issue(calls, Call("chatCompletion",
                     OrElse(hostProvider, OrElse(llmProviderEnv, "ionos"))))
    /\ pc' = "generate"

Retrieve ==
    /\ pc = "retrieve"
    /\ \E embeddingProviderEnv \in SettingAfter(hostProvider) :
         calls' = Issue(calls, Call("embedding",
                     OrElse(hostProvider, OrElse(embeddingProviderEnv, "ollama"))))
    /\ pc' = "embed"
    /\ alertNlu' = NoAlertNlu
    /\ UNCHANGED <<gateway, index, retrieval, embedLog, fullHistory, messages, vectorStoreIds,
                   hostProvider, pgPool,
                   enhancedMessages, chartNlu, topK, useReranker, rawResults,
                   searchResults, obs, outcome>>

\* createEmbeddings rejects, or data is empty and data[0].embedding throws:
\* nothing in milvusSearch or handleQuery catches it
EmbeddingFails ==
    /\ pc = "embed"
    /\ \E cause \in {"Error", "TypeError"} :
         outcome' = Thrown(cause, LastProvider \o " embedding failed")
    /\ obs' = [obs EXCEPT !.failed = @ \cup {"embedding"}]
    /\ pc' = "done"
    /\ UNCHANGED <<gateway, index, retrieval, embedLog, fullHistory, messages, vectorStoreIds,
                   hostProvider, pgPool,
                   enhancedMessages, chartNlu, alertNlu, topK, useReranker,
                   rawResults, searchResults, calls>>

EmbeddingReturns ==
    /\ pc = "embed"
    /\ \E k \in 1..MaxTopK, useRerankerEnv \in {"", "true"} :
         /\ topK' = TopK(k)
         /\ useReranker' = UseReranker(LastProvider, useRerankerEnv)
    /\ calls' = Issue(calls, Call("vectorSearch", "milvus"))
    /\ pc' = "search"
    /\ UNCHANGED <<gateway, index, retrieval, embedLog, fullHistory, messages, vectorStoreIds,
                   hostProvider, pgPool,
                   enhancedMessages, chartNlu, alertNlu, rawResults,
                   searchResults, obs, outcome>>

\* milvusService.search rejects: nothing catches it
SearchFails ==
    /\ pc = "search"
    /\ outcome' = Thrown("Error", "vector search failed")
    /\ obs' = [obs EXCEPT !.failed = @ \cup {"vectorSearch"}]
    /\ pc' = "done"
    /\ UNCHANGED <<gateway, index, retrieval, embedLog, fullHistory, messages, vectorStoreIds,
                   hostProvider, pgPool,
                   enhancedMessages, chartNlu, alertNlu, topK, useReranker,
                   rawResults, searchResults, calls>>

SearchReturns ==
    /\ pc = "search"
    /\ \E n \in 0..Min(RetrieveK(topK, useReranker), MaxHits),
          shape \in {"array", "nested", "data", "other"},
          rerankProviderEnv \in {"", "other"} :
         LET results == NormalizeResults(shape, Hits(n)) IN
         /\ rawResults' = results
         /\ searchResults' = results
         /\ IF useReranker /\ OrElse(rerankProviderEnv, "opea") = "opea" /\ Len(results) > 0
            THEN /\ calls' = Issue(calls, Call("rerank", "opea"))
                 /\ pc' = "rerank"
                 /\ UNCHANGED <<fullHistory, messages, topK, useReranker>>
            ELSE ChatCall(results)
    /\ UNCHANGED <<gateway, index, retrieval, embedLog, vectorStoreIds,
                   hostProvider, pgPool,
                   enhancedMessages, chartNlu, alertNlu, obs, outcome>>

\* the rerank request rejects (error or timeout): caught in milvusSearch
RerankFails ==
    /\ pc = "rerank"
    /\ searchResults' = AfterRerankFailure(searchResults)
    /\ obs' = [obs EXCEPT !.failed = @ \cup {"rerank"}]
    /\ ChatCall(searchResults')
    /\ UNCHANGED <<gateway, index, retrieval, embedLog, vectorStoreIds,
                   hostProvider, pgPool,
                   enhancedMessages, chartNlu, alertNlu, rawResults, outcome>>

RerankReturns ==
    /\ pc = "rerank"
    /\ \E response \in RerankResponses(Len(searchResults), topK) :
         LET hits == ToRerankHits(searchResults, NoRandom(searchResults)) IN
         IF RerankHitsThrows(hits, response)
         THEN /\ searchResults' = AfterRerankFailure(searchResults)
              /\ obs' = [obs EXCEPT !.failed = @ \cup {"rerank"}]
         ELSE /\ searchResults' = RerankHits(hits, response)
              /\ UNCHANGED obs
    /\ ChatCall(searchResults')
    /\ UNCHANGED <<gateway, index, retrieval, embedLog, vectorStoreIds,
                   hostProvider, pgPool,
                   enhancedMessages, chartNlu, alertNlu, rawResults, outcome>>

-----------------------------------------------------------------------------
(* Generate and Respond *)

\* the main completion: the provider call rejects (transport error or
\* non-2xx status), or resolves with data that has no choices[0], no
\* choices[0].message, a message without content, or a message with content
ChatFailures == {"transport", "status"}
ChatShapes == {"nochoices", "nomessage", "nocontent", "content"}

\* sources.slice(0, 3)
TopSources(sources) == SubSeq(sources, 1, Min(3, Len(sources)))

\* the try / catch of handleQuery around the completion
CompletionOutcome(c, sources) ==
    IF c \in ChatFailures \/ c \in {"nochoices", "nomessage"}
    THEN Thrown("InternalServerErrorException", "Failed to generate response")
    ELSE ChatReply(IF c = "content" THEN Str("answer") ELSE Undefined,
                   TopSources(sources))

ChatCompletionReturns ==
    /\ pc = "generate"
    /\ \E c \in ChatFailures \cup ChatShapes :
         /\ outcome' = CompletionOutcome(c, searchResults)
         /\ obs' = [obs EXCEPT !.chat = c]
    /\ pc' = "done"
    /\ UNCHANGED <<gateway, index, retrieval, embedLog, fullHistory, messages, vectorStoreIds,
                   hostProvider, pgPool,
                   enhancedMessages, chartNlu, alertNlu, topK, useReranker,
                   rawResults, searchResults, calls>>

-----------------------------------------------------------------------------
(* The provider services on their own: OllamaService and OpeaService (in   *)
(* its two backend modes).  One behaviour is one call of one method.       *)

MaxVecLen == 3
MaxDim == 3
MaxDocs == 2
MaxResults == 2

\* an optional value: absent, or present with a value
None == <<>>

Some(x) == <<x>>

\* opt ?? default
Coalesce(opt, default) == IF Len(opt) = 0 THEN default ELSE opt[1]

\* OllamaService, OpeaService with backendMode 'ovms' or 'megaservice'
Services == {"ollama", "ovms", "megaservice"}

OpeaModes == {"ovms", "megaservice"}

NoEnv == [RAG_EMBED_DIM |-> None, EMBEDDING_DIMENSIONS |-> None]

NoGateway ==
    [op |-> "none", service |-> "none", phase |-> "idle", env |-> NoEnv,
     params |-> <<>>, response |-> <<>>, results |-> <<>>, result |-> <<>>]

\* process.env values of the two dimension settings: unset or a number
DimEnvs ==
    [RAG_EMBED_DIM : {None} \cup {Some(d) : d \in 1..MaxDim},
     EMBEDDING_DIMENSIONS : {None} \cup {Some(d) : d \in 1..MaxDim}]

DefaultDim == 1024

\* parseInt(process.env.RAG_EMBED_DIM ?? '1024', 10) in OllamaService,
\* parseInt(process.env.EMBEDDING_DIMENSIONS ?? '1024', 10) in OpeaService
TargetDim(service, env) ==
    IF service = "ollama"
    THEN Coalesce(env.RAG_EMBED_DIM, DefaultDim)
    ELSE Coalesce(env.EMBEDDING_DIMENSIONS, DefaultDim)

\* variant: a short vector is returned as it is
FitNoPadding(v, targetDim) ==
    IF Len(v) > targetDim THEN SubSeq(v, 1, targetDim) ELSE v

\* const fit = (v) => ... of createEmbeddings
Fit(v, targetDim) ==
    IF Len(v) = targetDim THEN v
    ELSE IF Len(v) > targetDim THEN SubSeq(v, 1, targetDim)
    ELSE [i \in 1..targetDim |-> IF i <= Len(v) THEN v[i] ELSE 0]

\* the embeddings a server returns
Vectors == UNION {[1..n -> {1, 2}] : n \in 0..MaxVecLen}

\* resp.data.data: empty, or one item for the one input
EmbeddingResponses == {<<>>} \cup {<<v>> : v \in Vectors}

EmbeddingCalls ==
    {[NoGateway EXCEPT !.op = "createEmbeddings", !.service = s,
                       !.phase = "called", !.env = e, !.response = r] :
        s \in Services, e \in DimEnvs, r \in EmbeddingResponses}

\* (resp.data?.data ?? []).map(d => ({...d, embedding: fit(d.embedding)}))
FitAll(data, targetDim) == [j \in 1..Len(data) |-> Fit(data[j], targetDim)]

OllamaCreateEmbeddings ==
    /\ gateway.op = "createEmbeddings"
    /\ gateway.service = "ollama"
    /\ gateway.phase = "called"
    /\ gateway' = [gateway EXCEPT
           !.result = FitAll(gateway.response, TargetDim("ollama", gateway.env)),
           !.phase = "returned"]
    /\ UNCHANGED <<pc, messages, vectorStoreIds, hostProvider, pgPool,
                   enhancedMessages, chartNlu, alertNlu, topK, useReranker,
                   rawResults, searchResults, fullHistory, calls, obs, outcome,
                   index, retrieval, embedLog>>

\* createEmbeddingsOVMS and createEmbeddingsMegaService
OpeaCreateEmbeddings ==
    /\ gateway.op = "createEmbeddings"
    /\ gateway.service \in OpeaModes
    /\ gateway.phase = "called"
    /\ gateway' = [gateway EXCEPT
           !.result = FitAll(gateway.response,
                             TargetDim(gateway.service, gateway.env)),
           !.phase = "returned"]
    /\ UNCHANGED <<pc, messages, vectorStoreIds, hostProvider, pgPool,
                   enhancedMessages, chartNlu, alertNlu, topK, useReranker,
                   rawResults, searchResults, fullHistory, calls, obs, outcome,
                   index, retrieval, embedLog>>

\* one item of a rerank response: index, relevance_score and score may each
\* be missing; index may be any number
RerankItems ==
    {[index |-> i, relevance_score |-> rs[1], score |-> rs[2]] :
        i \in {None} \cup {Some(k) : k \in 0..MaxDocs},
        rs \in {<<None, None>>, <<None, Some(3)>>, <<Some(1), None>>,
                <<Some(2), Some(3)>>}}

\* resp.data: the items under results, under data, or under neither
RerankData ==
    [field : {"results", "data", "none"},
     items : UNION {[1..m -> RerankItems] : m \in 0..MaxResults}]

RerankHitsCalls ==
    {[NoGateway EXCEPT !.op = "rerankHits", !.service = s, !.phase = "called",
                       !.params = [hits |-> Hits(n), topK |-> k],
                       !.response = r] :
        s \in OpeaModes, n \in 1..MaxDocs, k \in {None, Some(1)},
        r \in RerankData}

\* params.hits.map(hit => ({text: hit.text, id: hit.id}))
Documents(hits) ==
    [i \in 1..Len(hits) |-> [text |-> hits[i].text, id |-> hits[i].id]]

\* resp.data?.results ?? resp.data?.data ?? [] in rerankOVMS,
\* resp.data?.results ?? [] in rerankMegaService
ResponseItems(service, data) ==
    IF data.field = "results" THEN data.items
    ELSE IF data.field = "data" /\ service = "ovms" THEN data.items
    ELSE <<>>

\* .map((result, idx) => ({index: result.index ?? idx, relevance_score:
\* result.relevance_score ?? result.score ?? 0.0, document:
\* params.documents[result.index ?? idx]})), idx from 0
RerankResults(service, documents, data) ==
    LET items == ResponseItems(service, data) IN
    [j \in 1..Len(items) |->
        LET idx == Coalesce(items[j].index, j - 1) IN
        [index |-> idx,
         relevance_score |-> Coalesce(items[j].relevance_score,
                                      Coalesce(items[j].score, 0)),
         document |-> IF idx + 1 \in 1..Len(documents)
                      THEN Some(documents[idx + 1]) ELSE None]]

\* OpeaService.rerank as rerankHits awaits it
OpeaRerank ==
    /\ gateway.op = "rerankHits"
    /\ gateway.phase = "called"
    /\ gateway' = [gateway EXCEPT
           !.results = RerankResults(gateway.service,
                                     Documents(gateway.params.hits),
                                     gateway.response),
           !.phase = "reranked"]
    /\ UNCHANGED <<pc, messages, vectorStoreIds, hostProvider, pgPool,
                   enhancedMessages, chartNlu, alertNlu, topK, useReranker,
                   rawResults, searchResults, fullHistory, calls, obs, outcome,
                   index, retrieval, embedLog>>

\* the rest of rerankHits: map the results back to hits and sort, or the
\* TypeError of originalHit.id on an undefined originalHit
OpeaRerankHits ==
    /\ gateway.op = "rerankHits"
    /\ gateway.phase = "reranked"
    /\ IF RerankHitsThrows(gateway.params.hits, gateway.results)
       THEN gateway' = [gateway EXCEPT !.phase = "thrown"]
       ELSE gateway' = [gateway EXCEPT
                !.result = RerankHits(gateway.params.hits, gateway.results),
                !.phase = "returned"]
    /\ UNCHANGED <<pc, messages, vectorStoreIds, hostProvider, pgPool,
                   enhancedMessages, chartNlu, alertNlu, topK, useReranker,
                   rawResults, searchResults, fullHistory, calls, obs, outcome,
                   index, retrieval, embedLog>>

\* params.messages and the messages a caller may put into extra
ParamMessages == <<[role |-> "user", content |-> "q1"]>>

ExtraMessages == <<[role |-> "user", content |-> "q2"]>>

ExtraKeys == {"model", "temperature", "max_tokens", "stream", "messages"}

ExtraValue(k) ==
    CASE k = "model" -> "extra-model"
      [] k = "temperature" -> "0.9"
      [] k = "max_tokens" -> "64"
      [] k = "stream" -> "true"
      [] k = "messages" -> ExtraMessages

\* params.extra: absent, or an object with some of the keys
Extras ==
    {None} \cup {Some([k \in K |-> ExtraValue(k)]) : K \in SUBSET ExtraKeys}

ChatParams ==
    [messages : {ParamMessages},
     temperature : {None, Some("0.7")},
     maxTokens : {None, Some("256")},
     extra : Extras]

ChatCompletionCalls ==
    {[NoGateway EXCEPT !.op = "chatCompletion", !.service = s,
                       !.phase = "called", !.params = p] :
        s \in Services, p \in ChatParams}

\* the fields of the body literal before the spread of extra
BodyDefaults(service, params) ==
    LET common == [k \in {"model", "messages", "temperature", "max_tokens"} |->
            CASE k = "model" ->
                     IF service = "ollama" THEN "llama3.3:70b-instruct-q3_K_M"
                     ELSE IF service = "megaservice"
                     THEN "meta-llama/Meta-Llama-3-8B-Instruct"
                     ELSE IF Len(params.extra) = 1
                             /\ "model" \in DOMAIN params.extra[1]
                     THEN params.extra[1]["model"]
                     ELSE "meta-llama/Llama-3.3-70B-Instruct"
              [] k = "messages" -> params.messages
              [] k = "temperature" -> Coalesce(params.temperature, "0.3")
              [] k = "max_tokens" -> Coalesce(params.maxTokens, "1024")]
    IN [k \in DOMAIN common \cup {IF service = "ollama" THEN "keep_alive" ELSE "stream"} |->
            IF k \in DOMAIN common THEN common[k]
            ELSE IF k = "keep_alive" THEN "30m" ELSE "false"]

\* {...defaults, ...(params.extra ?? {})}: a later key replaces an earlier one
Spread(defaults, extra) ==
    LET e == Coalesce(extra, [k \in {} |-> ""]) IN
    [k \in DOMAIN defaults \cup DOMAIN e |->
        IF k \in DOMAIN e THEN e[k] ELSE defaults[k]]

\* the body handed to http.post
Body(service, params) == Spread(BodyDefaults(service, params), params.extra)

OllamaChatCompletion ==
    /\ gateway.op = "chatCompletion"
    /\ gateway.service = "ollama"
    /\ gateway.phase = "called"
    /\ gateway' = [gateway EXCEPT !.result = Body("ollama", gateway.params),
                                  !.phase = "posted"]
    /\ UNCHANGED <<pc, messages, vectorStoreIds, hostProvider, pgPool,
                   enhancedMessages, chartNlu, alertNlu, topK, useReranker,
                   rawResults, searchResults, fullHistory, calls, obs, outcome,
                   index, retrieval, embedLog>>

\* chatCompletionOVMS and chatCompletionMegaService
OpeaChatCompletion ==
    /\ gateway.op = "chatCompletion"
    /\ gateway.service \in OpeaModes
    /\ gateway.phase = "called"
    /\ gateway' = [gateway EXCEPT
           !.result = Body(gateway.service, gateway.params),
           !.phase = "posted"]
    /\ UNCHANGED <<pc, messages, vectorStoreIds, hostProvider, pgPool,
                   enhancedMessages, chartNlu, alertNlu, topK, useReranker,
                   rawResults, searchResults, fullHistory, calls, obs, outcome,
                   index, retrieval, embedLog>>

-----------------------------------------------------------------------------
(* The vectors handed to the vector index: the document vector of          *)
(* addDocument and the query vector of milvusSearch                        *)

MaxHanded == 2

\* the embedding services whose source is modelled; a call routed to the
\* IONOS service is left out
EmbeddingProviders == {"ollama", "opea"}

IndexEnvs ==
    [EMBEDDING_PROVIDER : {""} \cup EmbeddingProviders,
     RAG_EMBED_DIM : {None} \cup {Some(d) : d \in 1..MaxDim},
     EMBEDDING_DIMENSIONS : {None} \cup {Some(d) : d \in 1..MaxDim}]

NoIndex ==
    [env |-> [EMBEDDING_PROVIDER |-> "", RAG_EMBED_DIM |-> None,
              EMBEDDING_DIMENSIONS |-> None],
     handed |-> <<>>]

\* the embedding a server returns for one input
Served(n) == [i \in 1..n |-> 1]

\* embeddingResponse.data[0].embedding from the service of this provider
Embedding(provider, env, served) ==
    Fit(served, TargetDim(IF provider = "ollama" THEN "ollama" ELSE "ovms", env))

\* addDocument up to milvusService.addDocuments
AddDocument ==
    /\ Len(index.handed) < MaxHanded
    /\ LET provider == OrElse(index.env.EMBEDDING_PROVIDER, "ionos") IN
       /\ provider \in EmbeddingProviders
       /\ \E n \in 1..MaxVecLen :
            index' = [index EXCEPT !.handed = Append(@,
                        [by |-> "addDocument", provider |-> provider,
                         vector |-> Embedding(provider, index.env, Served(n))])]
    /\ UNCHANGED <<pc, messages, vectorStoreIds, hostProvider, pgPool,
                   enhancedMessages, chartNlu, alertNlu, topK, useReranker,
                   rawResults, searchResults, fullHistory, calls, obs, outcome,
                   gateway, retrieval, embedLog>>

\* milvusSearch up to milvusService.search
EmbedQuestion ==
    /\ Len(index.handed) < MaxHanded
    /\ \E host \in EmbeddingProviders, n \in 1..MaxVecLen :
         LET provider == OrElse(host, OrElse(index.env.EMBEDDING_PROVIDER, "ollama")) IN
         index' = [index EXCEPT !.handed = Append(@,
                     [by |-> "milvusSearch", provider |-> provider,
                      vector |-> Embedding(provider, index.env, Served(n))])]
    /\ UNCHANGED <<pc, messages, vectorStoreIds, hostProvider, pgPool,
                   enhancedMessages, chartNlu, alertNlu, topK, useReranker,
                   rawResults, searchResults, fullHistory, calls, obs, outcome,
                   gateway, retrieval, embedLog>>

-----------------------------------------------------------------------------
(* milvusSearch on its own, called twice on one conversation with the same *)
(* settings and the same external responses                                *)

MaxRecords == 2
MaxK == 21

\* the records the vector index may hold at rank i: with labels (text and
\* source) and an id; flat with text and id; with content and filename but
\* without id; with labels that carry a source only, without text and id
RecordsAt(i) ==
    { [id |-> "id" \o ToString(i),
       labels |-> [text |-> "t" \o ToString(i), source |-> "manual.pdf"],
       score |-> 100 - i],
      [id |-> "id" \o ToString(i), text |-> "t" \o ToString(i), score |-> 100 - i],
      [content |-> "c" \o ToString(i), filename |-> "f.pdf", score |-> 100 - i],
      [labels |-> [source |-> "s.pdf"], distance |-> 100 - i] }

\* n records, the i-th one of RecordsAt(i)
RECURSIVE HeldOf(_)
HeldOf(n) ==
    IF n = 0 THEN {<<>>}
    ELSE {Append(h, r) : h \in HeldOf(n - 1), r \in RecordsAt(n)}

\* what the index holds for the question, best first
Held == UNION {HeldOf(n) : n \in 0..MaxRecords}

\* milvusService.search(collectionName, questionVector, retrieveK): the
\* best retrieveK records
SearchResponse(held, limit) == SubSeq(held, 1, Min(limit, Len(held)))

\* hostProvider and the process.env settings milvusSearch reads
\* (RETRIEVE_TOP_K 0: unset)
RetrievalSettings ==
    {[host |-> h, EMBEDDING_PROVIDER |-> p, RETRIEVE_TOP_K |-> k,
      USE_RERANKER |-> u, RERANKER_PROVIDER |-> r] :
        h \in {"", "opea"}, p \in {"", "opea"}, k \in {0, 1, 7, MaxK},
        u \in {"", "true", "TRUE"}, r \in {"", "other"}}

NoRetrieval ==
    [phase |-> "idle",
     settings |-> [host |-> "", EMBEDDING_PROVIDER |-> "", RETRIEVE_TOP_K |-> 0,
                   USE_RERANKER |-> "", RERANKER_PROVIDER |-> ""],
     held |-> <<>>, reranker |-> "fails", topK |-> 0, useReranker |-> FALSE,
     retrieveK |-> 0, runs |-> <<>>]

\* the reranker answers in rank order or preferring the last documents, or
\* its call fails
MilvusSearchCalls ==
    {[NoRetrieval EXCEPT !.phase = "called", !.settings = s, !.held = h,
                         !.reranker = r] :
        s \in {t \in RetrievalSettings :
                 t.EMBEDDING_PROVIDER \in SettingAfter(t.host)},
        h \in Held, r \in {"rank", "reverse", "fails"}}

\* milvusSearch up to the await of milvusService.search
MilvusSearchRequests ==
    /\ retrieval.phase = "called"
    /\ LET s == retrieval.settings
           embeddingProvider == OrElse(s.host, OrElse(s.EMBEDDING_PROVIDER, "ollama"))
           k == TopK(s.RETRIEVE_TOP_K)
           rerank == UseReranker(embeddingProvider, s.USE_RERANKER)
       IN retrieval' = [retrieval EXCEPT !.phase = "searching", !.topK = k,
                                         !.useReranker = rerank,
                                         !.retrieveK = RetrieveK(k, rerank)]
    /\ UNCHANGED <<pc, messages, vectorStoreIds, hostProvider, pgPool,
                   enhancedMessages, chartNlu, alertNlu, topK, useReranker,
                   rawResults, searchResults, fullHistory, calls, obs, outcome,
                   gateway, index, embedLog>>

\* the rest of milvusSearch: the normalisation, the reranking with its
\* catch, the context text and the return; after the first return
\* milvusSearch is called again
MilvusSearchReturns ==
    /\ retrieval.phase = "searching"
    /\ LET candidates == NormalizeResults("array",
                             SearchResponse(retrieval.held, retrieval.retrieveK))
           applies == /\ retrieval.useReranker
                      /\ OrElse(retrieval.settings.RERANKER_PROVIDER, "opea") = "opea"
                      /\ Len(candidates) > 0
       IN \E random \in [(IF applies THEN Unidentified(candidates) ELSE {})
                            -> Randoms] :
            LET hits == ToRerankHits(candidates, random)
                response == RerankResponse(retrieval.reranker, Len(hits),
                                           retrieval.topK)
                reranked == /\ applies
                            /\ retrieval.reranker # "fails"
                            /\ ~RerankHitsThrows(hits, response)
                results == IF reranked THEN RerankHits(hits, response)
                           ELSE IF applies THEN AfterRerankFailure(candidates)
                           ELSE candidates
            IN retrieval' = [retrieval EXCEPT
                   !.phase = IF Len(retrieval.runs) = 0 THEN "called" ELSE "returned",
                   !.topK = 0, !.useReranker = FALSE, !.retrieveK = 0,
                   !.runs = Append(@,
                       [topK |-> retrieval.topK,
                        useReranker |-> retrieval.useReranker,
                        retrieveK |-> retrieval.retrieveK,
                        candidates |-> candidates,
                        reranked |-> reranked,
                        blocks |-> Blocks(results),
                        contextText |-> ContextText(results),
                        sources |-> results])]
    /\ UNCHANGED <<pc, messages, vectorStoreIds, hostProvider, pgPool,
                   enhancedMessages, chartNlu, alertNlu, topK, useReranker,
                   rawResults, searchResults, fullHistory, calls, obs, outcome,
                   gateway, index, embedLog>>

-----------------------------------------------------------------------------
(* The logged-dimension flags: concurrent createEmbeddings calls of one    *)
(* OpeaService in one process                                              *)

MaxCalls == 2

NoEmbedLog ==
    [mode |-> "ovms", env |-> NoEnv,
     flags |-> [ovms |-> FALSE, megaservice |-> FALSE],
     writes |-> <<>>, lines |-> 0, inflight |-> <<>>]

\* process.env.OPEA_BACKEND_MODE and EMBEDDING_DIMENSIONS at process start
EmbedLogStarts ==
    {[NoEmbedLog EXCEPT !.mode = m, !.env.EMBEDDING_DIMENSIONS = d] :
        m \in OpeaModes, d \in {None} \cup {Some(n) : n \in 1..MaxDim}}

\* variant: the flag is not tested
FlagNotTested(flags, mode) == TRUE

\* !(global as any).__logged_opea_ovms_embed_dim in createEmbeddingsOVMS,
\* !(global as any).__logged_opea_megaservice_embed_dim in
\* createEmbeddingsMegaService
FlagUnset(flags, mode) == ~flags[mode]

\* createEmbeddings up to the await of the post
CreateEmbeddingsPosts ==
    /\ Len(embedLog.inflight) < MaxCalls
    /\ embedLog' = [embedLog EXCEPT !.inflight = Append(@,
                       [phase |-> "posted", response |-> <<>>, result |-> <<>>])]
    /\ UNCHANGED <<pc, messages, vectorStoreIds, hostProvider, pgPool,
                   enhancedMessages, chartNlu, alertNlu, topK, useReranker,
                   rawResults, searchResults, fullHistory, calls, obs, outcome,
                   gateway, index, retrieval>>

\* the post of one call resolves (resp.data.data is empty or holds one
\* embedding of some length): fit, the test and the write of the flag with
\* its log line, and the return run without an await between them
CreateEmbeddingsResolves ==
    /\ \E c \in 1..Len(embedLog.inflight),
          r \in {<<>>} \cup {<<Served(n)>> : n \in 0..MaxVecLen} :
         /\ embedLog.inflight[c].phase = "posted"
         /\ LET data == FitAll(r, TargetDim(embedLog.mode, embedLog.env))
                first == FlagUnset(embedLog.flags, embedLog.mode)
            IN embedLog' = [embedLog EXCEPT
                   !.inflight[c] = [phase |-> "returned", response |-> r,
                                    result |-> data],
                   !.flags[embedLog.mode] = IF first THEN TRUE ELSE @,
                   !.writes = IF first THEN Append(@, TRUE) ELSE @,
                   !.lines = IF first THEN @ + 1 ELSE @]
    /\ UNCHANGED <<pc, messages, vectorStoreIds, hostProvider, pgPool,
                   enhancedMessages, chartNlu, alertNlu, topK, useReranker,
                   rawResults, searchResults, fullHistory, calls, obs, outcome,
                   gateway, index, retrieval>>

\* the post of one call rejects: the catch logs and throws, the flag is
\* not reached
CreateEmbeddingsRejects ==
    /\ \E c \in 1..Len(embedLog.inflight) :
         /\ embedLog.inflight[c].phase = "posted"
         /\ embedLog' = [embedLog EXCEPT !.inflight[c].phase = "thrown"]
    /\ UNCHANGED <<pc, messages, vectorStoreIds, hostProvider, pgPool,
                   enhancedMessages, chartNlu, alertNlu, topK, useReranker,
                   rawResults, searchResults, fullHistory, calls, obs, outcome,
                   gateway, index, retrieval>>

-----------------------------------------------------------------------------

Init ==
    /\ pc = "start"
    /\ messages \in MessagesValues
    /\ vectorStoreIds \in VectorStoreIdsValues
    /\ hostProvider \in Providers
    /\ pgPool \in BOOLEAN
    /\ enhancedMessages = <<>>
    /\ chartNlu = NoChartNlu
    /\ alertNlu = NoAlertNlu
    /\ topK = 0
    /\ useReranker = FALSE
    /\ rawResults = <<>>
    /\ searchResults = <<>>
    /\ calls = <<>>
    /\ obs = NoObs
    /\ outcome = NoOutcome
    /\ fullHistory = <<>>
    /\ gateway = NoGateway
    /\ index = NoIndex
    /\ retrieval = NoRetrieval
    /\ embedLog = NoEmbedLog

Next ==
    \/ Validate
    \/ ChartCheck
    \/ ChartClassifierFails
    \/ ChartClassifierReturns
    \/ ChartFetchReturns
    \/ AlertCheck
    \/ AlertClassifierFails
    \/ AlertClassifierReturns
    \/ AlertFetchReturns
    \/ Retrieve
    \/ EmbeddingFails
    \/ EmbeddingReturns
    \/ SearchFails
    \/ SearchReturns
    \/ RerankFails
    \/ RerankReturns
    \/ ChatCompletionReturns

Spec == Init /\ [][Next]_vars

\* the request of Init before it starts; no handleQuery action runs in the
\* specifications below
Idle ==
    /\ pc = "idle"
    /\ messages = [tag |-> "undefined", arr |-> <<>>]
    /\ vectorStoreIds = <<>>
    /\ hostProvider = "ionos"
    /\ pgPool = FALSE
    /\ enhancedMessages = <<>>
    /\ chartNlu = NoChartNlu
    /\ alertNlu = NoAlertNlu
    /\ topK = 0
    /\ useReranker = FALSE
    /\ rawResults = <<>>
    /\ searchResults = <<>>
    /\ fullHistory = <<>>
    /\ calls = <<>>
    /\ obs = NoObs
    /\ outcome = NoOutcome

GatewayInit ==
    /\ Idle
    /\ gateway \in EmbeddingCalls \cup RerankHitsCalls \cup ChatCompletionCalls
    /\ index = NoIndex
    /\ retrieval = NoRetrieval
    /\ embedLog = NoEmbedLog

GatewayNext ==
    \/ OllamaCreateEmbeddings
    \/ OpeaCreateEmbeddings
    \/ OpeaRerank
    \/ OpeaRerankHits
    \/ OllamaChatCompletion
    \/ OpeaChatCompletion

GatewaySpec == GatewayInit /\ [][GatewayNext]_vars

IndexInit ==
    /\ Idle
    /\ gateway = NoGateway
    /\ index \in [env : IndexEnvs, handed : {<<>>}]
    /\ retrieval = NoRetrieval
    /\ embedLog = NoEmbedLog

IndexNext ==
    \/ AddDocument
    \/ EmbedQuestion

IndexSpec == IndexInit /\ [][IndexNext]_vars

RetrievalInit ==
    /\ Idle
    /\ gateway = NoGateway
    /\ index = NoIndex
    /\ retrieval \in MilvusSearchCalls
    /\ embedLog = NoEmbedLog

RetrievalNext ==
    \/ MilvusSearchRequests
    \/ MilvusSearchReturns

RetrievalSpec == RetrievalInit /\ [][RetrievalNext]_vars

EmbedLogInit ==
    /\ Idle
    /\ gateway = NoGateway
    /\ index = NoIndex
    /\ retrieval = NoRetrieval
    /\ embedLog \in EmbedLogStarts

EmbedLogNext ==
    \/ CreateEmbeddingsPosts
    \/ CreateEmbeddingsResolves
    \/ CreateEmbeddingsRejects

EmbedLogSpec == EmbedLogInit /\ [][EmbedLogNext]_vars

TypeOK ==
    /\ pc \in {"start", "chartCheck", "chartClassify", "chartFetch", "alertCheck",
               "alertClassify", "alertFetch", "retrieve", "embed", "search",
               "rerank", "generate", "done", "idle"}
    /\ (pc = "done") = (outcome.kind # "none")

-----------------------------------------------------------------------------
(* Properties *)

Ops == {calls[i].op : i \in 1..Len(calls)}

RetrievalOps == {"embedding", "vectorSearch", "rerank", "chatCompletion"}

\* C1: when the alert check is actionable and the alert fetch yields an
\* empty alert list, the response is the reply "No live data available for
\* <asset_urn>." with alerts [], not the reply given when alerts exist.
C1_NoLiveDataReply ==
    (pc = "done" /\ Issued("alertFetch") /\ Len(outcome.alerts) = 0)
        => outcome = AlertReply("No live data available for "
                                    \o alertNlu.asset_urn.val \o ".", <<>>)

\* C2: when the chart classifier gives wants_chart, an asset_urn, a metric
\* and a relative window last (no from/to) and the time-series store is
\* configured, the request performs the time-series fetch, ends with the
\* reply of the chart path and never calls the main chat completion.
C2_RelativeWindowChart ==
    (pc = "done" /\ obs.relative /\ pgPool)
        => /\ Issued("timeSeries")
           /\ outcome.kind \in {"chart", "message"}
           /\ ~Issued("chatCompletion")

\* C3: the time-series fetch is issued and a chart reply returned only if
\* the chart classifier result has wants_chart true and asset_urn, from and
\* to present; the alert fetch is issued and an alert reply returned only if
\* the alert classifier result has wants_alert true and asset_urn present; a
\* false wants_chart / wants_alert never leads to the fetch.
C3_IntentGating ==
    /\ (Issued("timeSeries") \/ outcome.kind \in {"chart", "message"})
          => /\ Truthy(chartNlu.wants_chart)
             /\ Truthy(chartNlu.asset_urn)
             /\ Truthy(chartNlu.from)
             /\ Truthy(chartNlu.to)
             /\ obs.chart = "full"
    /\ (Issued("alertFetch") \/ outcome.kind = "alert")
          => /\ Truthy(alertNlu.wants_alert)
             /\ Truthy(alertNlu.asset_urn)
             /\ obs.alert = "full"
    /\ outcome.kind \in {"chart", "message"} => Issued("timeSeries")
    /\ outcome.kind = "alert" => Issued("alertFetch")

C3_Witness ==
    /\ pc = "done"
    /\ outcome.kind = "chart"
    /\ Issued("timeSeries")

C5_ShortCircuit ==
    /\ (Issued("timeSeries") \/ outcome.kind \in {"chart", "message"})
          => /\ Ops \subseteq {"chartClassifier", "timeSeries"}
             /\ pc \in {"chartFetch", "done"}
    /\ (Issued("alertFetch") \/ outcome.kind = "alert")
          => /\ Ops \cap RetrievalOps = {}
             /\ pc \in {"alertFetch", "done"}
    /\ pc = "done" /\ Issued("timeSeries") => outcome.kind \in {"chart", "message"}
    /\ pc = "done" /\ Issued("alertFetch") => outcome.kind = "alert"

C5_Witness ==
    /\ pc = "done"
    /\ outcome.kind = "alert"
    /\ Issued("chartClassifier")
    /\ Len(outcome.alerts) > 0

\* C6: a missing, non-array or empty messages value fails with the
\* bad-request error before any external call is issued.
C6_ValidationFirst ==
    (messages.tag # "array" \/ Len(messages.arr) = 0)
        => /\ calls = <<>>
           /\ pc \in {"start", "done"}
           /\ pc = "done" => outcome = Thrown("BadRequestException",
                                 "Messages array is required and cannot be empty")

C6_Witness ==
    /\ pc = "done"
    /\ messages.tag = "array"
    /\ Len(messages.arr) = 0
    /\ outcome.kind = "BadRequestException"

\* C7: whenever the main chat completion fails (transport error, non-2xx
\* status, or a response lacking choices[0].message.content), handleQuery
\* fails with the generic internal error 'Failed to generate response'.
C7_GenericGenerationError ==
    (pc = "done" /\ obs.chat \in ChatFailures \cup {"nochoices", "nomessage", "nocontent"})
        => outcome = Thrown("InternalServerErrorException",
                            "Failed to generate response")

\* C8: a failure of the query embedding, the vector search or the reranking
\* does not abort the request: handleQuery still reaches generation.
C8_RetrievalFailureDegrades ==
    (pc = "done" /\ obs.failed \cap {"embedding", "vectorSearch", "rerank"} # {})
        => /\ Issued("chatCompletion")
           /\ outcome.kind \in {"reply", "InternalServerErrorException"}

\* C9: when the reranker call fails, retrieval completes with the vector
\* search candidates in their original order, and a generated response
\* carries a reply and the first three of those candidates as sources.
C9_RerankFallback ==
    "rerank" \in obs.failed
        => /\ pc \in {"generate", "done"}
           /\ searchResults = rawResults
           /\ Issued("chatCompletion")
           /\ (pc = "done" /\ obs.chat = "content")
                 => /\ outcome.kind = "reply"
                    /\ outcome.reply = Str("answer")
                    /\ outcome.sources = SubSeq(rawResults, 1, Min(3, Len(rawResults)))

C9_Witness ==
    /\ pc = "done"
    /\ "rerank" \in obs.failed
    /\ Len(rawResults) > 3
    /\ outcome.kind = "reply"
    /\ Len(outcome.sources) = 3

\* C10: every handleQuery invocation ends in one of: chart-summary reply,
\* clarification message, alert reply, conversational reply, bad-request
\* error, generic internal error; no other error kind escapes.
C10_OutcomeKinds ==
    pc = "done"
        => outcome.kind \in {"chart", "message", "alert", "reply",
                             "BadRequestException", "InternalServerErrorException"}

C12_FitVector ==
    (gateway.op = "createEmbeddings" /\ gateway.phase = "returned")
        => LET d == TargetDim(gateway.service, gateway.env) IN
           /\ Len(gateway.result) = Len(gateway.response)
           /\ \A j \in 1..Len(gateway.response) :
                LET v == gateway.response[j]
                    r == gateway.result[j]
                IN /\ Len(r) = d
                   /\ Len(v) >= d => \A i \in 1..d : r[i] = v[i]
                   /\ Len(v) < d => /\ \A i \in 1..Len(v) : r[i] = v[i]
                                    /\ \A i \in (Len(v) + 1)..d : r[i] = 0

C12_Witness ==
    /\ gateway.op = "createEmbeddings"
    /\ gateway.phase = "returned"
    /\ gateway.response = <<(<<2>>)>>
    /\ gateway.result = <<(<<2, 0, 0>>)>>

\* C13: every vector handed to the vector index, the query vector of
\* milvusSearch and the document vector of addDocument alike, has the length
\* of one and the same configured target dimension, whichever provider
\* produced it.
C13_OneTargetDimension ==
    \A i, j \in 1..Len(index.handed) :
        Len(index.handed[i].vector) = Len(index.handed[j].vector)

\* C14: for every provider response, each result of rerank has an index that
\* is a valid position in the input documents, and no index appears twice.
C14_RerankIndexFidelity ==
    (gateway.op = "rerankHits" /\ gateway.phase # "called")
        => /\ \A j \in 1..Len(gateway.results) :
                gateway.results[j].index \in 0..(Len(gateway.params.hits) - 1)
           /\ \A j, k \in 1..Len(gateway.results) :
                j # k => gateway.results[j].index # gateway.results[k].index

\* C15: rerankHits returns hits in non-increasing order of rerank_score, and
\* each returned hit carries the id, text and score of the input hit at the
\* index the reranker reported, with the reported score as rerank_score.
C15_RerankHitsOrdered ==
    (gateway.op = "rerankHits" /\ gateway.phase = "returned")
        => LET out == gateway.result
               res == gateway.results
               hits == gateway.params.hits
           IN /\ Len(out) = Len(res)
              /\ \A k \in 1..(Len(out) - 1) :
                    out[k].rerank_score >= out[k + 1].rerank_score
              /\ \E p \in Permutations(1..Len(res)) :
                    \A k \in 1..Len(out) :
                        /\ out[k].id = hits[res[p[k]].index + 1].id
                        /\ out[k].text = hits[res[p[k]].index + 1].text
                        /\ out[k].score = hits[res[p[k]].index + 1].score
                        /\ out[k].rerank_score = res[p[k]].relevance_score

C15_Witness ==
    /\ gateway.op = "rerankHits"
    /\ gateway.phase = "returned"
    /\ Len(gateway.results) = 2
    /\ gateway.results[1].index = 1
    /\ gateway.results[2].index = 0
    /\ gateway.results[1].relevance_score < gateway.results[2].relevance_score
    /\ gateway.result[1].id = 1
    /\ gateway.result[2].id = 2

\* C16: in chatCompletion of every backend the fields of extra override the
\* defaults model, temperature, max_tokens and stream, but the posted
\* messages field equals params.messages even when extra has a messages key.
C16_ExtraNeverReplacesMessages ==
    (gateway.op = "chatCompletion" /\ gateway.phase = "posted")
        => LET extra == Coalesce(gateway.params.extra, [k \in {} |-> ""]) IN
           /\ \A k \in DOMAIN extra \cap {"model", "temperature", "max_tokens", "stream"} :
                gateway.result[k] = extra[k]
           /\ gateway.result["messages"] = gateway.params.messages

\* the order in which handleQuery makes its external calls
CallOrder ==
    <<"chartClassifier", "timeSeries", "alertClassifier", "alertFetch",
      "embedding", "vectorSearch", "rerank", "chatCompletion">>

\* the place of a call in that order
Position(op) ==
    CASE op = CallOrder[1] -> 1
      [] op = CallOrder[2] -> 2
      [] op = CallOrder[3] -> 3
      [] op = CallOrder[4] -> 4
      [] op = CallOrder[5] -> 5
      [] op = CallOrder[6] -> 6
      [] op = CallOrder[7] -> 7
      [] op = CallOrder[8] -> 8

\* the call handleQuery is suspended on at each await
Awaited ==
    [chartClassify |-> "chartClassifier", chartFetch |-> "timeSeries",
     alertClassify |-> "alertClassifier", alertFetch |-> "alertFetch",
     embed |-> "embedding", search |-> "vectorSearch", rerank |-> "rerank",
     generate |-> "chatCompletion"]

\* C17: within one request the external calls are made one after the other
\* in the fixed order chart classifier, time-series fetch, alert classifier,
\* alert fetch, embedding, vector search, rerank, main chat completion; each
\* is made at most once, and a failed call is never issued again.
C17_SequentialCalls ==
    /\ \A i \in 1..Len(calls) : \A j \in (i + 1)..Len(calls) :
          Position(calls[i].op) < Position(calls[j].op)
    /\ pc \in DOMAIN Awaited => /\ Len(calls) > 0
                                /\ calls[Len(calls)].op = Awaited[pc]

C17_Witness ==
    /\ pc = "done"
    /\ [i \in 1..Len(calls) |-> calls[i].op] =
           <<"chartClassifier", "alertClassifier", "embedding", "vectorSearch",
             "rerank", "chatCompletion">>
    /\ "rerank" \in obs.failed
    /\ obs.chat = "transport"

\* C18: every provider call of a request (chart classification, alert
\* classification, query embedding, main chat completion) is sent to the
\* one backend that hostProvider selects.
C18_SingleBackend ==
    \A i \in 1..Len(calls) :
        calls[i].op \in {"chartClassifier", "alertClassifier", "embedding",
                         "chatCompletion"}
            => calls[i].provider = hostProvider

\* C19: whatever completion the chart or the alert classifier gets (content
\* a string, an array, an object or absent; text that does not parse; JSON
\* that is not an object, such as null or an array), classification does not
\* make handleQuery fail: a result that cannot be used counts as no intent
\* and the request goes on to the next check.
C19_ClassifierNeverFails ==
    /\ obs.chart = "unusable"
          => /\ ~Issued("timeSeries")
             /\ pc # "chartClassify"
             /\ outcome.kind \notin {"chart", "message"}
             /\ pc # "alertCheck" => Issued("alertClassifier")
    /\ obs.alert = "unusable"
          => /\ ~Issued("alertFetch")
             /\ pc # "alertClassify"
             /\ outcome.kind # "alert"
             /\ pc # "retrieve" => Issued("embedding")
    /\ (pc = "done" /\ ~Issued("embedding"))
          => outcome.kind \in {"chart", "message", "alert", "BadRequestException"}
    /\ outcome.kind = "BadRequestException" => calls = <<>>

C19_Witness ==
    /\ pc = "done"
    /\ obs.chart = "unusable"
    /\ obs.alert = "unusable"
    /\ outcome.kind = "reply"

\* C20: when the time-series query or the alert request fails, the fetcher
\* returns an empty series / an empty alert list instead of throwing, and
\* handleQuery still returns a normal response.
C20_FetchFailureIsEmpty ==
    /\ "timeSeries" \in obs.failed
          => /\ pc = "done"
             /\ outcome.kind = "message"
             /\ outcome.series = <<>>
    /\ "alertFetch" \in obs.failed
          => /\ pc = "done"
             /\ outcome.kind = "alert"
             /\ outcome.alerts = <<>>
             /\ outcome.reply.tag = "string"

C20_Witness ==
    /\ pc = "done"
    /\ "alertFetch" \in obs.failed
    /\ outcome.kind = "alert"
    /\ Issued("chartClassifier")

\* C21: when a chart was intended (wants_chart true) but the request is
\* under-specified (asset_urn, from or to missing), handleQuery returns the
\* {message} clarification reply.
C21_ClarificationWhenUnderSpecified ==
    (pc = "done" /\ obs.chart = "partial") => outcome.kind = "message"

\* C22: two runs of milvusSearch on an identical conversation with identical
\* embedding, vector-search and rerank responses produce identical
\* contextText and an identical, identically ordered sources list.
C22_RetrievalDeterministic ==
    Len(retrieval.runs) = 2
        => /\ retrieval.runs[1].contextText = retrieval.runs[2].contextText
           /\ retrieval.runs[1].sources = retrieval.runs[2].sources

\* the settings of the retrieval as the configuration gives them
ConfiguredProvider ==
    IF retrieval.settings.host # "" THEN retrieval.settings.host
    ELSE IF retrieval.settings.EMBEDDING_PROVIDER # ""
    THEN retrieval.settings.EMBEDDING_PROVIDER
    ELSE "ollama"

ConfiguredK ==
    IF retrieval.settings.RETRIEVE_TOP_K = 0 THEN 5
    ELSE retrieval.settings.RETRIEVE_TOP_K

RerankingActive ==
    \/ ConfiguredProvider = "opea"
    \/ retrieval.settings.USE_RERANKER \in {"true", "TRUE"}

\* C25: milvusSearch requests exactly k = RETRIEVE_TOP_K candidates when
\* reranking is inactive and exactly min(3k, 20) when it is active;
\* reranking is active whenever the embedding provider is opea, whatever
\* USE_RERANKER says, and otherwise exactly when USE_RERANKER is true.
C25_RetrieveCount ==
    \A i \in 1..Len(retrieval.runs) :
        LET run == retrieval.runs[i] IN
        /\ run.useReranker = RerankingActive
        /\ run.retrieveK =
              IF RerankingActive
              THEN (IF 3 * ConfiguredK < 20 THEN 3 * ConfiguredK ELSE 20)
              ELSE ConfiguredK

C25_Witness ==
    /\ Len(retrieval.runs) = 1
    /\ retrieval.settings.host = "opea"
    /\ retrieval.settings.USE_RERANKER = ""
    /\ retrieval.settings.RETRIEVE_TOP_K = 7
    /\ retrieval.runs[1].useReranker
    /\ retrieval.runs[1].retrieveK = 20

\* C26: a retrieved record from which no non-empty text can be extracted (no
\* labels.text, text or content) contributes no block: the number of blocks
\* in contextText equals the number of records with non-empty text.
C26_TextlessRecordsDropped ==
    \A i \in 1..Len(retrieval.runs) :
        LET run == retrieval.runs[i] IN
        Len(run.blocks) =
            Cardinality({j \in 1..Len(run.sources) : HitText(run.sources[j]) # ""})

\* C28: the number of records rendered into the context text and returned
\* as sources never exceeds k = RETRIEVE_TOP_K, also when reranking is
\* active but the reranker call fails or reranking is not applied.
C28_AtMostTopK ==
    \A i \in 1..Len(retrieval.runs) :
        LET run == retrieval.runs[i] IN
        /\ Len(run.sources) <= run.topK
        /\ Len(run.blocks) <= run.topK

\* C29: successful reranking changes only which records survive and their
\* order: each surviving record has the source label and the block text
\* that a candidate record has without reranking.
C29_RerankKeepsProvenance ==
    \A i \in 1..Len(retrieval.runs) :
        LET run == retrieval.runs[i] IN
        run.reranked
            => \A j \in 1..Len(run.sources) :
                 \E c \in 1..Len(run.candidates) :
                    /\ BlockSource(run.sources[j], j - 1)
                          = BlockSource(run.candidates[c], c - 1)
                    /\ BlockText(run.sources[j]) = BlockText(run.candidates[c])

\* C30: for every configured k >= 1 the number of candidates requested with
\* reranking active is at least k.
C30_OverFetchAtLeastK ==
    \A i \in 1..Len(retrieval.runs) :
        LET run == retrieval.runs[i] IN
        (run.useReranker /\ run.topK >= 1) => run.retrieveK >= run.topK

\* the calls of createEmbeddings that have returned a value
Returned ==
    {c \in 1..Len(embedLog.inflight) : embedLog.inflight[c].phase = "returned"}

\* C23: under any interleaving of concurrent createEmbeddings calls the
\* logged-dimension flag of the process goes from unset to set at most once
\* and is never reset, and the value each call returns does not depend on
\* the flag: calls with the same response return the same value, the one
\* that found the flag unset and the ones that found it set.
C23_FlagSetOnce ==
    /\ Len(embedLog.writes) <= 1
    /\ \A w \in 1..Len(embedLog.writes) : embedLog.writes[w] = TRUE
    /\ embedLog.flags[embedLog.mode] = (Len(embedLog.writes) = 1)
    /\ embedLog.lines = Len(embedLog.writes)
    /\ Returned # {} => embedLog.flags[embedLog.mode]
    /\ \A c, d \in Returned :
          embedLog.inflight[c].response = embedLog.inflight[d].response
              => embedLog.inflight[c].result = embedLog.inflight[d].result

C23_Witness ==
    /\ Returned = {1, 2}
    /\ embedLog.inflight[1].response = embedLog.inflight[2].response
    /\ embedLog.inflight[1].result = <<(<<1, 0>>)>>
    /\ embedLog.writes = <<TRUE>>
    /\ embedLog.lines = 1

Classifiers == {"chartClassifier", "alertClassifier"}

\* C24: the intent classifiers take as input the content of the most recent
\* user-role message of the conversation they are given; if it has no
\* user-role message, no classifier call is made and the checks give no
\* intent.
C24_ClassifierInput ==
    /\ \A i \in 1..Len(calls) :
          calls[i].op \in Classifiers
              => \E j \in 1..Len(enhancedMessages) :
                    /\ enhancedMessages[j].role = "user"
                    /\ \A l \in (j + 1)..Len(enhancedMessages) :
                          enhancedMessages[l].role # "user"
                    /\ calls[i].input = enhancedMessages[j].content
    /\ (\A j \in 1..Len(enhancedMessages) : enhancedMessages[j].role # "user")
          => /\ \A i \in 1..Len(calls) : calls[i].op \notin Classifiers
             /\ ~Issued("timeSeries")
             /\ ~Issued("alertFetch")
             /\ outcome.kind \notin {"chart", "message", "alert"}

C24_Witness ==
    /\ pc = "done"
    /\ Len(enhancedMessages) = 2
    /\ enhancedMessages[2].role = "assistant"
    /\ calls[1].op = "chartClassifier"
    /\ calls[1].input = "Find Information for product vs1."
    /\ calls[2].op = "alertClassifier"
    /\ calls[2].input = "Find Information for product vs1."

\* C27: when vectorStoreIds is non-empty the enhanced conversation is the
\* caller's messages, in order, with exactly one synthetic user message
\* prepended, and otherwise it equals the caller's messages; the caller's
\* messages array and its message objects are never modified by handleQuery,
\* the context splice included.
C27_EnhanceKeepsMessages ==
    /\ messages \in MessagesValues
    /\ (pc # "start" /\ messages.tag = "array" /\ Len(messages.arr) > 0)
          => IF Len(vectorStoreIds) > 0
             THEN /\ Len(enhancedMessages) = Len(messages.arr) + 1
                  /\ enhancedMessages[1].role = "user"
                  /\ enhancedMessages[1] \notin
                        {messages.arr[i] : i \in 1..Len(messages.arr)}
                  /\ \A i \in 1..Len(messages.arr) :
                        enhancedMessages[i + 1] = messages.arr[i]
             ELSE enhancedMessages = messages.arr

C27_Witness ==
    /\ pc = "done"
    /\ vectorStoreIds = <<"vs1">>
    /\ messages.arr = <<[role |-> "user", content |-> "q1"]>>
    /\ Len(fullHistory) = 3
    /\ fullHistory[2] = enhancedMessages[1]
    /\ fullHistory[3].role = "user"
    /\ fullHistory[3].content # "q1"

====
